---------------------------- MODULE Spec2Model ----------------------------
(***************************************************************************)
(* The continuous loop of persistent-code-context                          *)
(* (src/src/services/continuousLoop.ts): ContinuousLoop.run, its           *)
(* termination policy shouldContinue, the per-iteration pipeline           *)
(* executeIteration, and the PRManager it drives (createPR, waitForChecks, *)
(* getPRStatus, mergePR, closePR).                                         *)
(*                                                                         *)
(* Time is counted in poll intervals (pollIntervalMs, 10 s): the code only *)
(* ever reads Date.now() - startTime, so the model keeps the two elapsed   *)
(* times (of the run, of the current waitForChecks) instead of the clock.  *)
(* Money is counted in units of the fixed per-iteration cost (0.05 USD).   *)
(***************************************************************************)
EXTENDS Integers, Sequences, FiniteSets, TLC

(***************************************************************************)
(* Bounds of the model.                                                    *)
(***************************************************************************)
\* Passes of the while loop that are counted exactly (the horizon).
IterBound == 3
\* The nonzero maxDuration tried, in ticks; the run's elapsed time saturates here.
DurationBound == 2
\* The nonzero maxCost tried, in units of IterationCost.
CostBound == 2
\* completionThreshold ranges over 1..ThresholdBound.
ThresholdBound == 2
\* waitForChecks' timeout in ticks (the default of 1800 s is 180 ticks, scaled down).
PollTimeoutTicks == 3
\* Raw check records reported for one review by one status fetch.
ChecksBound == 2
\* Calls of run made on one instance, one after the other.
RunBound == 2
\* The length of progress.md before the first merge, in tokens.
FileLenBound == 6
\* Calls of mergeSessions made on one ContextManager.
MergeBound == 2
\* The length of a content handed to the FileService, in tokens, and the
\* calls of appendFile on one file.
PieceLenBound == 2
AppendBound == 2
\* The calls of appendFile on progress.md, and the prompts open at once.
HistoryBound == 3
PromptBound == 1
\* Entries of the notes file that fit in the tail loadPreviousIterationNotes
\* returns (1000 characters, scaled down).
TailBound == 2

\* result.cost = 0.05, the unit of money.
IterationCost == 1

Min(a, b) == IF a < b THEN a ELSE b

(***************************************************************************)
(* LoopConfig.                                                             *)
(***************************************************************************)
Strategies == {"squash", "merge", "rebase"}

\* The constructor's defaults (maxIterations: 5, no other cap, squash, threshold 1).
DefaultConfig ==
  [maxIterations |-> 5, maxDuration |-> 0, maxCost |-> 0,
   mergeStrategy |-> "squash", completionThreshold |-> 1]

\* The userConfig values tried: every cap absent (0) or present, under the
\* default strategy and threshold; the other thresholds with no cap or the
\* iteration cap alone; the other strategies, which only mergePR reads, with
\* a small iteration cap alone.
UserConfigs ==
  { c \in [maxIterations : 0..IterBound,
           maxDuration : {0, DurationBound},
           maxCost : {0, CostBound},
           mergeStrategy : Strategies,
           completionThreshold : 1..ThresholdBound] :
      /\ \/ c.mergeStrategy = DefaultConfig.mergeStrategy
         \/ c.maxIterations \in 1..2 /\ c.maxDuration = 0 /\ c.maxCost = 0
      /\ \/ c.completionThreshold = DefaultConfig.completionThreshold
         \/ c.maxDuration = 0 /\ c.maxCost = 0 }

\* Object.assign(this.config, userConfig): the keys of source override target.
ObjectAssign(target, source) ==
  [k \in DOMAIN target |-> IF k \in DOMAIN source THEN source[k] ELSE target[k]]

\* The validation of run: no limit given at all.
\* (the same test made on the constructor's defaults instead of the merged
\* configuration)
NoLimitOfDefaults(cfg) ==
  DefaultConfig.maxIterations = 0 /\ cfg.maxDuration = 0 /\ cfg.maxCost = 0
NoLimit(cfg) ==
  cfg.maxIterations = 0 /\ cfg.maxDuration = 0 /\ cfg.maxCost = 0

(***************************************************************************)
(* IterationResult. summary is kept by kind: "" (not generated yet),       *)
(* "signal" (generated text that contains completionSignal), "plain"       *)
(* (generated text that does not), "fallback" (the placeholder used when   *)
(* the provider is unavailable). changedFiles is kept by its length.       *)
(* prNumber 0 and error "" stand for undefined.                            *)
(***************************************************************************)
NewResult(n) ==
  [iterationNumber |-> n, success |-> FALSE, cost |-> 0, summary |-> "",
   prNumber |-> 0, changedFiles |-> 0, error |-> ""]

\* result.summary.includes(this.config.completionSignal)
IncludesSignal(summary) == summary = "signal"

NoPR == [number |-> 0, state |-> "none", flag |-> "", passed |-> FALSE]
\* No status fetched in the current poll; the fetch of the current poll threw.
NoStatus == [pending |-> -1, success |-> -1, failed |-> -1]
FetchError == [pending |-> -2, success |-> -2, failed |-> -2]

VARIABLES
  pc,            \* where run / executeIteration / waitForChecks stands
  config,        \* this.config
  isRunning,     \* this.isRunning
  iterations,    \* this.iterations
  elapsed,       \* Date.now() - this.startTime, in ticks, kept up to maxDuration
  totalCost,     \* this.totalCost
  consecutiveCompletionSignals,
  result,        \* the IterationResult of the running iteration
  head,          \* the checkout of the working tree: "main" or "iteration"
  pr,            \* the review of the running iteration, as the platform holds it
  ledger,        \* the notes file: the entries appended, oldest first
  pollElapsed,   \* Date.now() - startTime inside waitForChecks, in ticks
  lastStatus,    \* what the getPRStatus of the current poll gave
  checksPass,    \* what waitForChecks returned: "none", "true", "false"
  closeReason,   \* the reason given to closePR in this iteration, "" if not called
  queryFailed,   \* the git status of getChangedFiles failed in this iteration
  contextNotes,  \* the file SHARED_TASK_NOTES.md of the context directory
  enhancedPrompt,\* the prompt buildEnhancedPrompt returned in this iteration
  gatewayInput,  \* the argument aiService.summarize was called with
  pendingPolls,  \* the polls of the current waitForChecks so far, all of which
                 \* reported pending checks and none failed; -1 after any other poll
  thrown,        \* the message of the error run rejected with, "" if none
  summaryPrinted,\* printSummary ran
  exitBy,        \* why the loop ended: the log line written
  streak,        \* iterations in a row, up to the last, that succeeded with the signal
  runs,          \* the calls of run made on the instance so far
  intended,      \* the defaults overridden by the userConfig of the last call
  other,         \* a call of run made while the first was suspended: where it
                 \* stands and the result of its iteration
  progress,      \* the file progress.md of the context directory
  currentSession,\* ContextManager.currentSession
  returned,      \* what the last call of mergeSessions returned
  merges,        \* the calls of mergeSessions made so far
  enableAutosave,\* ContextManager.enableAutosave
  autosaveTimer, \* ContextManager.autosaveTimer is set: the interval runs
  activated,     \* the extension is activated: a ContextManager exists
  prompts,       \* the resume/merge prompts shown and not answered yet, each
                 \* with the session names its callback holds
  appended,      \* the calls of appendFile made on progress.md so far
  lastCall,      \* the ContextManager method the last step called
  file,          \* a file of a FileService: whether it exists, its content
  initial,       \* that file before the first appendFile
  pieces,        \* the contents handed to appendFile so far, in call order
  commits,       \* the iterations whose commits the checkout holds and the
                 \* trunk does not
  notesDirty     \* the notes file has content that is not committed

loopVars ==
  <<pc, config, isRunning, iterations, elapsed, totalCost,
    consecutiveCompletionSignals, result, head, pr, ledger, pollElapsed,
    lastStatus, checksPass, closeReason, queryFailed, pendingPolls,
    contextNotes, enhancedPrompt, gatewayInput, thrown,
    summaryPrinted, exitBy, streak, runs, intended, commits, notesDirty>>

managerVars == <<enableAutosave, autosaveTimer, activated, prompts, appended,
                 lastCall>>
fileVars == <<file, initial, pieces>>
sessionVars ==
  <<progress, currentSession, returned, merges, managerVars, fileVars>>

vars == <<loopVars, other, sessionVars>>

worldVars == <<head, pr, ledger>>
treeVars == <<commits, notesDirty>>
pollVars == <<pollElapsed, lastStatus, checksPass, pendingPolls>>
ghostVars == <<thrown, summaryPrinted, exitBy, streak, runs, intended>>
promptVars == <<contextNotes, enhancedPrompt, gatewayInput>>

\* No prompt built yet, nothing handed to the provider yet.
NoPrompt == [task |-> "", notes |-> <<>>, signalInstruction |-> FALSE]
NoInput == [called |-> FALSE, prompt |-> NoPrompt]
\* No second call of run; no session started; mergeSessions not called.
NoCall == [pc |-> "none", result |-> NewResult(0)]
NoSession == [name |-> ""]
NotReturned == "(none)"
NoFile == [exists |-> FALSE, content |-> <<>>]

\* A FileService whose file was never written.
FileInit ==
  /\ file = NoFile
  /\ initial = NoFile
  /\ pieces = <<>>

\* A ContextManager that was just constructed by activate, with the setting
\* enableAutosave at its default.
SessionInit ==
  /\ currentSession = NoSession
  /\ returned = NotReturned
  /\ merges = 0
  /\ enableAutosave = TRUE
  /\ autosaveTimer = TRUE
  /\ activated = TRUE
  /\ prompts = {}
  /\ appended = 0
  /\ lastCall = "loadConfiguration"
  /\ FileInit

LoopInit ==
  /\ pc = "idle"
  /\ config = DefaultConfig
  /\ isRunning = FALSE
  /\ iterations = 0
  /\ elapsed = 0
  /\ totalCost = 0
  /\ consecutiveCompletionSignals = 0
  /\ result = NewResult(0)
  /\ head = "main"
  /\ pr = NoPR
  /\ ledger = <<>>
  /\ pollElapsed = 0
  /\ lastStatus = NoStatus
  /\ checksPass = "none"
  /\ closeReason = ""
  /\ queryFailed = FALSE
  /\ contextNotes = <<>>
  /\ enhancedPrompt = NoPrompt
  /\ gatewayInput = NoInput
  /\ pendingPolls = 0
  /\ thrown = ""
  /\ summaryPrinted = FALSE
  /\ exitBy = "none"
  /\ streak = 0
  /\ runs = 0
  /\ intended = DefaultConfig
  /\ other = NoCall
  /\ commits = {}
  /\ notesDirty = FALSE

\* One ContinuousLoop after construction, in a workspace without progress.md.
Init ==
  /\ LoopInit
  /\ SessionInit
  /\ progress = <<>>

(***************************************************************************)
(* PRManager.getPRStatus: the raw check records of a review, tallied.      *)
(***************************************************************************)
\* The raw check records tried: status and conclusion as gh reports them
\* ("none" is an absent field).
RawChecks ==
  { [status |-> "queued",    conclusion |-> "none"],
    [status |-> "completed", conclusion |-> "success"],
    [status |-> "completed", conclusion |-> "failure"],
    [status |-> "none",      conclusion |-> "failure"] }

\* The lists of check records a fetch may report, up to their order (which
\* getPRStatus does not read): at most ChecksBound records, sorted by kind.
KindOf(check) ==
  CHOOSE k \in 1..4 :
    check = << [status |-> "queued",    conclusion |-> "none"],
               [status |-> "completed", conclusion |-> "success"],
               [status |-> "completed", conclusion |-> "failure"],
               [status |-> "none",      conclusion |-> "failure"] >>[k]

CheckLists ==
  { checks \in UNION { [1..n -> RawChecks] : n \in 0..ChecksBound } :
      \A i \in 1..(Len(checks) - 1) : KindOf(checks[i]) <= KindOf(checks[i + 1]) }

\* The branch of the for loop taken for one check record.
Classify(check) ==
  IF check.conclusion = "success" \/ check.status = "completed" THEN "success"
  ELSE IF check.status = "in_progress" \/ check.status = "queued"
          \/ check.conclusion = "none" THEN "pending"
  ELSE "failed"

\* checkStates after the for loop over parsed.checks.
CheckStates(checks) ==
  [pending |-> Cardinality({i \in DOMAIN checks : Classify(checks[i]) = "pending"}),
   success |-> Cardinality({i \in DOMAIN checks : Classify(checks[i]) = "success"}),
   failed  |-> Cardinality({i \in DOMAIN checks : Classify(checks[i]) = "failed"})]

\* mergePR: the flag given to gh pr merge for a strategy.
StrategyFlag(strategy) ==
  IF strategy = "squash" THEN "--squash"
  ELSE IF strategy = "rebase" THEN "--rebase" ELSE "--merge"

(***************************************************************************)
(* ContinuousLoop.shouldContinue and the log line it writes.               *)
(***************************************************************************)
\* (the iteration cap compared with > instead of >=)
StopReasonOnePassLate ==
  IF config.maxIterations > 0 /\ iterations > config.maxIterations
    THEN "maxIterations"
  ELSE IF config.maxDuration > 0 /\ elapsed >= config.maxDuration
    THEN "maxDuration"
  ELSE IF config.maxCost > 0 /\ totalCost >= config.maxCost
    THEN "maxCost"
  ELSE IF ~isRunning THEN "notRunning"
  ELSE "none"
\* (the duration cap read only when no iteration cap is set)
StopReasonChained ==
  IF config.maxIterations > 0
    THEN IF iterations >= config.maxIterations THEN "maxIterations" ELSE "none"
  ELSE IF config.maxDuration > 0 /\ elapsed >= config.maxDuration
    THEN "maxDuration"
  ELSE IF config.maxCost > 0 /\ totalCost >= config.maxCost
    THEN "maxCost"
  ELSE IF ~isRunning THEN "notRunning"
  ELSE "none"
StopReason ==
  IF config.maxIterations > 0 /\ iterations >= config.maxIterations
    THEN "maxIterations"
  ELSE IF config.maxDuration > 0 /\ elapsed >= config.maxDuration
    THEN "maxDuration"
  ELSE IF config.maxCost > 0 /\ totalCost >= config.maxCost
    THEN "maxCost"
  ELSE IF ~isRunning THEN "notRunning"
  ELSE "none"

shouldContinue == StopReason = "none"

\* One more tick on the run's clock. The elapsed time is kept up to the
\* duration cap: past it, or without one, no comparison reads it.
ElapsedAfterTick == Min(elapsed + 1, config.maxDuration)

(***************************************************************************)
(* ContinuousLoop.run.                                                     *)
(***************************************************************************)
\* The figures printSummary prints.
printSummary == {"iterations", "totalCost", "time"}

\* The finally block of run: isRunning = false, printSummary().
Finally(why) ==
  /\ isRunning' = FALSE
  /\ summaryPrinted' = TRUE
  /\ exitBy' = why
  /\ pc' = "done"

\* run up to the while loop: Object.assign, the validation, the resets. What
\* is recorded about the call before (its error, its summary, its exit) is
\* forgotten.
\* (a call that leaves the counters of the call before as they are)
RunCallKeepsCounters(userConfig) ==
  /\ config' = ObjectAssign(config, userConfig)
  /\ intended' = ObjectAssign(DefaultConfig, userConfig)
  /\ runs' = runs + 1
  /\ summaryPrinted' = FALSE
  /\ exitBy' = "none"
  /\ streak' = 0
  /\ IF NoLimit(config')
       THEN /\ thrown' = "Must specify at least one limit"
            /\ pc' = "rejected"
            /\ UNCHANGED isRunning
       ELSE /\ isRunning' = TRUE
            /\ pc' = "check"
            /\ thrown' = ""
  /\ UNCHANGED <<elapsed, totalCost, iterations, consecutiveCompletionSignals,
                 result, worldVars, pollVars, closeReason, queryFailed,
                 promptVars, other, sessionVars, treeVars>>
RunCall(userConfig) ==
  /\ config' = ObjectAssign(config, userConfig)
  /\ intended' = ObjectAssign(DefaultConfig, userConfig)
  /\ runs' = runs + 1
  /\ summaryPrinted' = FALSE
  /\ exitBy' = "none"
  /\ streak' = 0
  /\ IF NoLimit(config')
       THEN /\ thrown' = "Must specify at least one limit"
            /\ pc' = "rejected"
            /\ UNCHANGED <<isRunning, elapsed, totalCost, iterations,
                           consecutiveCompletionSignals>>
       ELSE /\ isRunning' = TRUE
            /\ elapsed' = 0
            /\ totalCost' = 0
            /\ iterations' = 0
            /\ consecutiveCompletionSignals' = 0
            /\ pc' = "check"
            /\ thrown' = ""
  /\ UNCHANGED <<result, worldVars, pollVars, closeReason, queryFailed,
                 promptVars, other, sessionVars, treeVars>>

\* The first call of run on the instance.
Run(userConfig) ==
  /\ pc = "idle"
  /\ RunCall(userConfig)

\* A later call of run on the same instance, after the call before it ended.
RunAgain(userConfig) ==
  /\ pc \in {"done", "rejected"}
  /\ runs < RunBound
  /\ RunCall(userConfig)

\* The start of executeIteration for the pass numbered n: a fresh result.
EnterIteration(n) ==
  /\ iterations' = n
  /\ result' = NewResult(n)
  /\ pc' = "createBranch"
  /\ UNCHANGED <<config, other, sessionVars, treeVars, isRunning, elapsed, totalCost,
                 consecutiveCompletionSignals, worldVars, pollVars,
                 closeReason, queryFailed, promptVars, ghostVars>>

\* while (this.shouldContinue()) { this.iterations++; ... executeIteration
LoopEnter ==
  /\ pc = "check"
  /\ shouldContinue
  /\ iterations < IterBound
  /\ EnterIteration(iterations + 1)

\* The same pass beyond the horizon: the counter is no longer counted (only a
\* run without iteration cap gets here, and it never compares the counter).
LoopEnterBeyond ==
  /\ pc = "check"
  /\ shouldContinue
  /\ iterations = IterBound
  /\ EnterIteration(iterations)

\* shouldContinue returned false: the loop ends, then the finally block.
LoopExit ==
  /\ pc = "check"
  /\ ~shouldContinue
  /\ Finally(StopReason)
  /\ UNCHANGED <<config, other, sessionVars, treeVars, iterations, elapsed, totalCost,
                 consecutiveCompletionSignals, result, worldVars, pollVars,
                 closeReason, queryFailed, promptVars, thrown,
                 streak, runs, intended>>

(***************************************************************************)
(* ContinuousLoop.executeIteration, one action per call it awaits.         *)
(***************************************************************************)
iterVars == <<config, other, sessionVars, isRunning, iterations, elapsed, totalCost,
              consecutiveCompletionSignals, ghostVars>>

\* The catch block: result.error = the message, result.success = false; return.
\* (the catch block without the message)
CaughtNoMessage(message) ==
  /\ result' = [result EXCEPT !.success = FALSE]
  /\ pc' = "returned"
Caught(message) ==
  /\ result' = [result EXCEPT !.error = message, !.success = FALSE]
  /\ pc' = "returned"

\* Step 1: createBranch (git checkout -b).
\* (a failed git checkout -b recorded, and the iteration carried on)
CreateBranchFailureIgnored ==
  /\ pc = "createBranch"
  /\ \E ok \in BOOLEAN :
       /\ pc' = "collect"
       /\ head' = IF ok THEN "iteration" ELSE head
       /\ result' = IF ok THEN result
                     ELSE [result EXCEPT !.error = "Command failed: git checkout -b"]
  /\ UNCHANGED <<iterVars, treeVars, pr, ledger, pollVars, closeReason, queryFailed, promptVars>>
CreateBranch ==
  /\ pc = "createBranch"
  /\ \E ok \in BOOLEAN :
       IF ok
         THEN head' = "iteration" /\ pc' = "collect" /\ UNCHANGED result
         ELSE Caught("Command failed: git checkout -b") /\ UNCHANGED head
  /\ UNCHANGED <<iterVars, treeVars, pr, ledger, pollVars, closeReason, queryFailed, promptVars>>

\* The notes file is kept as the list of its entries, and the 1000
\* characters of the tail as TailBound entries.
\* content.substring(Math.max(0, content.length - 1000))
ReadTail(content) ==
  SubSeq(content, (IF Len(content) > TailBound THEN Len(content) - TailBound
                                                ELSE 0) + 1, Len(content))

\* loadPreviousIterationNotes: the tail of SHARED_TASK_NOTES.md in the context
\* directory, '' when the file does not exist.
\* (the tail of the file saveIterationNotes writes)
loadPreviousIterationNotesOfLedger == ReadTail(ledger)
loadPreviousIterationNotes == ReadTail(contextNotes)

\* buildEnhancedPrompt: the previous notes, the state of the project, the
\* task and the instruction that names the completion signal.
buildEnhancedPrompt(basePrompt, snapshot, previousNotes) ==
  [task |-> basePrompt, notes |-> previousNotes, signalInstruction |-> TRUE]

\* Step 2: snapshotCollector.collect, loadPreviousIterationNotes,
\* buildEnhancedPrompt.
Collect ==
  /\ pc = "collect"
  /\ \E ok \in BOOLEAN :
       IF ok
         THEN /\ enhancedPrompt' =
                   buildEnhancedPrompt("task", "snapshot", loadPreviousIterationNotes)
              /\ pc' = "summarize"
              /\ UNCHANGED result
         ELSE /\ Caught("snapshot failed")
              /\ UNCHANGED enhancedPrompt
  /\ UNCHANGED <<iterVars, treeVars, worldVars, pollVars, closeReason, queryFailed,
                 contextNotes, gatewayInput>>

\* The argument of the call aiService.summarize(snapshot): the snapshot, by
\* what it carries of the prompt (no task text, no notes, no instruction).
SummarizeArgument == [task |-> "", notes |-> <<>>, signalInstruction |-> FALSE]

\* Step 3: aiService.summarize, which returns null instead of throwing; the
\* placeholder summary; the fixed cost.
\* (a provider that is unavailable treated as an error of the iteration)
SummarizeNullThrows ==
  /\ pc = "summarize"
  /\ \E aiSummary \in {"null", "signal", "plain"} :
       IF aiSummary = "null"
         THEN Caught("AI provider unavailable")
         ELSE /\ result' = [result EXCEPT !.summary = aiSummary,
                                          !.cost = IterationCost]
              /\ pc' = "changedFiles"
  /\ UNCHANGED <<iterVars, treeVars, worldVars, pollVars, closeReason, queryFailed, promptVars>>
Summarize ==
  /\ pc = "summarize"
  /\ gatewayInput' = [called |-> TRUE, prompt |-> SummarizeArgument]
  /\ \E aiSummary \in {"null", "signal", "plain"} :
       result' = [result EXCEPT
                    !.summary = IF aiSummary = "null" THEN "fallback" ELSE aiSummary,
                    !.cost = IterationCost]
  /\ pc' = "changedFiles"
  /\ UNCHANGED <<iterVars, treeVars, worldVars, pollVars, closeReason, queryFailed,
                 contextNotes, enhancedPrompt>>

\* GitService.getChangedFiles: the number of lines git status printed, or,
\* when git status failed, the empty list of the catch block.
\* (the failure of git status passed on to the caller as a negative length)
getChangedFilesRethrows(statusLines, failed) ==
  IF failed THEN -1 ELSE statusLines
getChangedFiles(statusLines, failed) ==
  IF failed THEN 0 ELSE statusLines

\* The numbers of lines git status may print when the generation step left
\* `generated` changed files: those files, or, without any, the notes file of
\* the loop when it has uncommitted content and no ignore rule covers it.
StatusLines(generated) ==
  {generated} \cup (IF notesDirty /\ generated = 0 THEN {1} ELSE {})

\* Steps 4 and 5: gitService.getChangedFiles and the test on its length,
\* for the numbers of files the generation step may have changed.
ChangedFilesOf(Generated) ==
  /\ pc = "changedFiles"
  /\ \E generated \in Generated, failed \in BOOLEAN :
     \E statusLines \in StatusLines(generated) :
       LET n == getChangedFiles(statusLines, failed) IN
       /\ queryFailed' = failed
       /\ IF n < 0
            THEN Caught("Command failed: git status")
            ELSE /\ result' = [result EXCEPT !.changedFiles = n]
                 /\ pc' = IF n > 0 THEN "commit" ELSE "saveNotes"
  /\ UNCHANGED <<iterVars, treeVars, worldVars, pollVars, closeReason, promptVars>>

ChangedFiles == ChangedFilesOf(0..1)

\* Step 5: git add -A && git commit.
\* (a failed commit recorded, and the push made all the same)
CommitFailureIgnored ==
  /\ pc = "commit"
  /\ \E ok \in BOOLEAN :
       /\ pc' = "push"
       /\ result' = IF ok THEN result
                     ELSE [result EXCEPT !.error = "Command failed: git commit"]
       /\ commits' = IF ok THEN commits \cup {iterations} ELSE commits
       /\ notesDirty' = IF ok THEN FALSE ELSE notesDirty
  /\ UNCHANGED <<iterVars, worldVars, pollVars, closeReason, queryFailed, promptVars>>
Commit ==
  /\ pc = "commit"
  /\ \E ok \in BOOLEAN :
       IF ok THEN /\ pc' = "push"
                  /\ commits' = commits \cup {iterations}
                  /\ notesDirty' = FALSE
                  /\ UNCHANGED result
             ELSE /\ Caught("Command failed: git commit")
                  /\ UNCHANGED treeVars
  /\ UNCHANGED <<iterVars, worldVars, pollVars, closeReason, queryFailed, promptVars>>

\* Step 6: git push -u origin.
Push ==
  /\ pc = "push"
  /\ \E ok \in BOOLEAN :
       IF ok THEN pc' = "createPR" /\ UNCHANGED result
             ELSE Caught("Command failed: git push")
  /\ UNCHANGED <<iterVars, treeVars, worldVars, pollVars, closeReason, queryFailed, promptVars>>

\* Step 7: prManager.createPR; then waitForChecks takes its startTime. The
\* review is numbered after the iteration that created it.
CreatePR ==
  /\ pc = "createPR"
  /\ \E ok \in BOOLEAN :
       IF ok
         THEN /\ pr' = [number |-> iterations, state |-> "open", flag |-> "",
                        passed |-> FALSE]
              /\ result' = [result EXCEPT !.prNumber = pr'.number]
              /\ pollElapsed' = 0
              /\ pc' = "poll"
         ELSE /\ Caught("Failed to create PR")
              /\ UNCHANGED <<pr, pollElapsed>>
  /\ UNCHANGED <<iterVars, treeVars, head, ledger, lastStatus, checksPass, pendingPolls,
                 closeReason, queryFailed, promptVars>>

\* if (checksPass) { merge ... } else { close ... }
\* (the merge made whatever waitForChecks returned)
AfterChecksAlwaysMerge(passed) == "merge"
AfterChecks(passed) == IF passed THEN "merge" ELSE "close"

\* waitForChecks returns: executeIteration takes its branch.
ChecksReturn(passed) ==
  /\ checksPass' = IF passed THEN "true" ELSE "false"
  /\ pr' = [pr EXCEPT !.passed = passed]
  /\ pc' = AfterChecks(passed)

\* The while condition of waitForChecks, on its elapsed time.
\* (a loop that never times out)
WithinTimeoutAlways(t) == TRUE
WithinTimeout(t) == t < PollTimeoutTicks

\* One more poll counted among the pending ones, or the count given up.
PendingPollsAfter(status) ==
  IF pendingPolls >= 0 /\ status.pending > 0 /\ status.failed = 0
    THEN pendingPolls + 1 ELSE -1

\* The verdict of one poll on the fetched checkStates: "false", "true", "sleep".
\* (a failed check waited out like a pending one)
PollVerdictFailedWaits(status) ==
  IF status.pending = 0 /\ status.success > 0 /\ status.failed = 0 THEN "true"
  ELSE "sleep"
\* (no pending check is enough to pass)
PollVerdictNothingPending(status) ==
  IF status.failed > 0 THEN "false"
  ELSE IF status.pending = 0 THEN "true"
  ELSE "sleep"
PollVerdict(status) ==
  IF status.failed > 0 THEN "false"
  ELSE IF status.pending = 0 /\ status.success > 0 THEN "true"
  ELSE "sleep"

\* Step 8, one pass of the while loop of waitForChecks whose getPRStatus
\* returned.
PollFetch ==
  /\ pc = "poll"
  /\ WithinTimeout(pollElapsed)
  /\ \E checks \in CheckLists :
       /\ lastStatus' = CheckStates(checks)
       /\ pendingPolls' = IF PollVerdict(lastStatus') = "sleep"
                             THEN PendingPollsAfter(lastStatus')
                             ELSE pendingPolls
       /\ IF PollVerdict(lastStatus') = "sleep"
            THEN pc' = "sleep" /\ UNCHANGED <<checksPass, pr>>
            ELSE ChecksReturn(PollVerdict(lastStatus') = "true")
  /\ UNCHANGED <<iterVars, treeVars, result, head, ledger, pollElapsed, closeReason, queryFailed, promptVars>>

\* The same pass when getPRStatus threw: logged, then the same wait.
PollFetchError ==
  /\ pc = "poll"
  /\ WithinTimeout(pollElapsed)
  /\ lastStatus' = FetchError
  /\ pendingPolls' = -1
  /\ pc' = "sleep"
  /\ UNCHANGED <<iterVars, treeVars, result, worldVars, pollElapsed, checksPass,
                 closeReason, queryFailed, promptVars>>

\* The while condition of waitForChecks is false: timeout, return false.
PollTimeout ==
  /\ pc = "poll"
  /\ ~WithinTimeout(pollElapsed)
  /\ ChecksReturn(FALSE)
  /\ UNCHANGED <<iterVars, treeVars, result, head, ledger, pollElapsed, lastStatus,
                 pendingPolls, closeReason, queryFailed, promptVars>>

\* setTimeout(resolve, pollIntervalMs): one tick passes.
Sleep ==
  /\ pc = "sleep"
  /\ pollElapsed' = Min(pollElapsed + 1, PollTimeoutTicks)
  /\ elapsed' = ElapsedAfterTick
  /\ lastStatus' = NoStatus
  /\ pc' = "poll"
  /\ UNCHANGED <<config, other, sessionVars, treeVars, isRunning, iterations, totalCost,
                 consecutiveCompletionSignals, ghostVars, result, worldVars,
                 checksPass, pendingPolls, closeReason, queryFailed, promptVars>>

\* The locals of waitForChecks are gone once executeIteration goes on to
\* the merge.
PollLocalsDropped ==
  /\ pollElapsed' = 0
  /\ lastStatus' = NoStatus
  /\ pendingPolls' = 0
  /\ UNCHANGED checksPass

\* Step 9: prManager.mergePR(prNumber, this.config.mergeStrategy).
Merge ==
  /\ pc = "merge"
  /\ \E ok \in BOOLEAN :
       IF ok
         THEN /\ pr' = [pr EXCEPT !.state = "merged",
                                  !.flag = StrategyFlag(config.mergeStrategy)]
              /\ commits' = {}
              /\ pc' = "checkout"
              /\ UNCHANGED result
         ELSE /\ Caught("Failed to merge PR")
              /\ UNCHANGED <<pr, commits>>
  /\ PollLocalsDropped
  /\ UNCHANGED <<iterVars, notesDirty, head, ledger, closeReason, queryFailed,
                 promptVars>>

\* Step 10: git checkout main.
Checkout ==
  /\ pc = "checkout"
  /\ \E ok \in BOOLEAN :
       IF ok THEN head' = "main" /\ commits' = {} /\ pc' = "pull"
                  /\ UNCHANGED result
             ELSE Caught("Command failed: git checkout main")
                  /\ UNCHANGED <<head, commits>>
  /\ UNCHANGED <<iterVars, notesDirty, pr, ledger, pollVars, closeReason, queryFailed, promptVars>>

\* Step 10: git pull origin main.
Pull ==
  /\ pc = "pull"
  /\ \E ok \in BOOLEAN :
       IF ok THEN pc' = "saveNotes" /\ UNCHANGED result
             ELSE Caught("Command failed: git pull")
  /\ UNCHANGED <<iterVars, treeVars, worldVars, pollVars, closeReason, queryFailed, promptVars>>

\* The else branch: prManager.closePR(prNumber, 'Checks failed'), then the
\* result of a failed check; a closePR that throws lands in the catch block.
\* (the error of the result set to the reason given to closePR)
CloseReportsReason ==
  /\ pc = "close"
  /\ closeReason' = "Checks failed"
  /\ \E ok \in BOOLEAN :
       IF ok
         THEN /\ pr' = [pr EXCEPT !.state = "closed"]
              /\ result' = [result EXCEPT !.success = FALSE,
                                          !.error = closeReason']
              /\ pc' = "returned"
         ELSE /\ Caught("Failed to close PR")
              /\ UNCHANGED pr
  /\ UNCHANGED <<iterVars, treeVars, head, ledger, pollVars, queryFailed, promptVars>>
Close ==
  /\ pc = "close"
  /\ closeReason' = "Checks failed"
  /\ \E ok \in BOOLEAN :
       IF ok
         THEN /\ pr' = [pr EXCEPT !.state = "closed"]
              /\ result' = [result EXCEPT !.success = FALSE,
                                          !.error = "PR checks failed"]
              /\ pc' = "returned"
         ELSE /\ Caught("Failed to close PR")
              /\ UNCHANGED pr
  /\ UNCHANGED <<iterVars, treeVars, head, ledger, pollVars, queryFailed, promptVars>>

\* The entry saveIterationNotes writes for the result as it stands: its
\* heading and its status line (the lines for the review, the summary and the
\* files are left out).
NotesEntry ==
  [iteration |-> iterations, status |-> result.success]

\* (the notes file written anew instead of appended to)
SaveNotesOverwrites ==
  /\ pc = "saveNotes"
  /\ ledger' = <<NotesEntry>>
  /\ notesDirty' = TRUE
  /\ result' = [result EXCEPT !.success = TRUE]
  /\ pc' = "returned"
  /\ UNCHANGED <<iterVars, commits, head, pr, pollVars, closeReason, queryFailed,
                 promptVars>>
\* Step 11: saveIterationNotes, then result.success = true. Entries beyond
\* the horizon of every call are not recorded.
SaveNotes ==
  /\ pc = "saveNotes"
  /\ \E ok \in BOOLEAN :
       IF ok
         THEN /\ ledger' = IF Len(ledger) < IterBound * RunBound
                             THEN Append(ledger, NotesEntry) ELSE ledger
              /\ notesDirty' = TRUE
              /\ result' = [result EXCEPT !.success = TRUE]
              /\ pc' = "returned"
         ELSE /\ Caught("notes file write failed")
              /\ UNCHANGED <<ledger, notesDirty>>
  /\ UNCHANGED <<iterVars, commits, head, pr, pollVars, closeReason, queryFailed, promptVars>>

\* Wall-clock time passing while git creates the branch, the provider
\* generates or a status fetch runs.
Tick ==
  /\ pc \in {"createBranch", "summarize", "poll"}
  /\ \/ elapsed < config.maxDuration
     \/ pc = "poll" /\ pollElapsed < PollTimeoutTicks
  /\ elapsed' = ElapsedAfterTick
  /\ pollElapsed' = IF pc = "poll" THEN Min(pollElapsed + 1, PollTimeoutTicks)
                                   ELSE pollElapsed
  /\ UNCHANGED <<pc, config, other, sessionVars, treeVars, isRunning, iterations, totalCost,
                 consecutiveCompletionSignals, ghostVars, result, worldVars,
                 lastStatus, checksPass, pendingPolls, closeReason, queryFailed, promptVars>>

(***************************************************************************)
(* run, after executeIteration returned.                                   *)
(***************************************************************************)
\* The value of consecutiveCompletionSignals after the result was handled.
SignalCountAfter(res, count) ==
  IF res.success
    THEN IF IncludesSignal(res.summary) THEN count + 1 ELSE 0
    ELSE count

\* (the cost of a failed iteration added as well)
CostAfterAnyResult(res, cost) == cost + IterationCost
\* this.totalCost += result.cost, for a successful result. A run without cost
\* cap never reads the sum, which is kept up to the horizon.
CostAfter(res, cost) ==
  IF res.success
    THEN IF config.maxCost > 0 THEN cost + res.cost
         ELSE Min(cost + res.cost, IterBound * IterationCost)
    ELSE cost

\* The break of the while loop.
\* (the threshold compared with > instead of >=)
TaskCompleteOnePassLate(res, count) ==
  res.success /\ IncludesSignal(res.summary) /\ count > config.completionThreshold
\* (the loop left on a failed iteration as well)
TaskCompleteOrFailed(res, count) ==
  \/ ~res.success
  \/ res.success /\ IncludesSignal(res.summary) /\ count >= config.completionThreshold
TaskComplete(res, count) ==
  res.success /\ IncludesSignal(res.summary) /\ count >= config.completionThreshold

\* The body of the while loop after the await; its locals, those of the
\* iteration and the review of the iteration are gone afterwards.
HandleResult ==
  /\ pc = "returned"
  /\ totalCost' = CostAfter(result, totalCost)
  /\ consecutiveCompletionSignals' =
       SignalCountAfter(result, consecutiveCompletionSignals)
  /\ streak' = IF result.success /\ IncludesSignal(result.summary)
                 THEN Min(streak + 1, IterBound) ELSE 0
  /\ IF TaskComplete(result, consecutiveCompletionSignals')
       THEN Finally("complete")
       ELSE pc' = "check" /\ UNCHANGED <<isRunning, summaryPrinted, exitBy>>
  /\ result' = NewResult(0)
  /\ pr' = NoPR
  /\ checksPass' = "none"
  /\ pollElapsed' = 0
  /\ lastStatus' = NoStatus
  /\ pendingPolls' = 0
  /\ closeReason' = ""
  /\ queryFailed' = FALSE
  /\ enhancedPrompt' = NoPrompt
  /\ gatewayInput' = NoInput
  /\ UNCHANGED <<config, other, sessionVars, treeVars, iterations, elapsed, head,
                 ledger, contextNotes, thrown, runs, intended>>

(***************************************************************************)
(* The specifications.                                                     *)
(***************************************************************************)
\* Every step of the run but the changed-file query.
Pipeline ==
  \/ CreateBranch \/ Collect \/ Summarize \/ Commit \/ Push
  \/ CreatePR \/ PollFetch \/ PollFetchError \/ PollTimeout \/ Sleep
  \/ Merge \/ Checkout \/ Pull \/ Close \/ SaveNotes \/ HandleResult
  \/ LoopEnter \/ LoopExit

Step == Pipeline \/ ChangedFiles

Next ==
  \/ \E userConfig \in UserConfigs : Run(userConfig)
  \/ Step
  \/ Tick

Spec == Init /\ [][Next]_vars

\* The run as it goes on past the horizon, with the scheduling the code has:
\* every call returns (the event loop resumes run), and the wall clock
\* advances whenever the run keeps reaching a call that takes time.
NextFair == Next \/ LoopEnterBeyond

FairSpec ==
  /\ Init
  /\ [][NextFair]_vars
  /\ WF_vars(Step \/ LoopEnterBeyond)
  /\ SF_vars(Tick)

\* The userConfig values tried on an instance that is used again: one
\* iteration at most, given by the iteration cap alone or by the three caps
\* (the other keys left out), and the three caps at zero.
ReuseConfigs ==
  [maxIterations : {1}]
    \cup [maxIterations : {1}, maxDuration : {0, DurationBound},
          maxCost : {0, CostBound}]
    \cup [maxIterations : {0}, maxDuration : {0}, maxCost : {0}]

\* One instance, run is called on it again after a call ended.
NextReuse ==
  \/ \E userConfig \in ReuseConfigs : Run(userConfig)
  \/ \E userConfig \in ReuseConfigs : RunAgain(userConfig)
  \/ Step
  \/ Tick

ReuseSpec == Init /\ [][NextReuse]_vars

(***************************************************************************)
(* run called on the instance again while the call before it is suspended  *)
(* in an await of its iteration. The two calls share the fields of the     *)
(* instance; each has its own position and its own result. The iteration   *)
(* of the second call is taken as a whole, by its outcome: what it does to *)
(* the working tree and to the platform is not followed, its notes entry   *)
(* is.                                                                     *)
(***************************************************************************)
\* The userConfig values tried by the two calls.
OverlapConfigs ==
  [maxIterations : 1..2]
    \cup [maxIterations : {0}, maxDuration : {0}, maxCost : {0, CostBound}]

\* The awaits of the first call during which the event loop serves other
\* callers for long: the provider's answer and the timer between two polls;
\* and the first call over.
Suspended == pc \in {"summarize", "sleep"}

\* What executeIteration can resolve to.
Outcomes == {"failed", "plain", "signal"}

otherFrame == <<pc, result, worldVars, pollVars, closeReason, queryFailed,
                promptVars, ghostVars, sessionVars, treeVars>>

\* The second call of run up to the while loop: the same statements as
\* RunCall, on the same fields.
RunWhileSuspended(userConfig) ==
  /\ Suspended
  /\ other.pc = "none"
  /\ config' = ObjectAssign(config, userConfig)
  /\ IF NoLimit(config')
       THEN /\ other' = [other EXCEPT !.pc = "rejected"]
            /\ UNCHANGED <<isRunning, elapsed, totalCost, iterations,
                           consecutiveCompletionSignals>>
       ELSE /\ isRunning' = TRUE
            /\ elapsed' = 0
            /\ totalCost' = 0
            /\ iterations' = 0
            /\ consecutiveCompletionSignals' = 0
            /\ other' = [other EXCEPT !.pc = "check"]
  /\ UNCHANGED otherFrame

\* The while loop of the second call: shouldContinue, this.iterations++, and
\* executeIteration up to its first await.
OtherEnter ==
  /\ other.pc = "check"
  /\ shouldContinue
  /\ iterations < IterBound
  /\ iterations' = iterations + 1
  /\ other' = [pc |-> "iteration", result |-> NewResult(iterations')]
  /\ UNCHANGED <<config, isRunning, elapsed, totalCost,
                 consecutiveCompletionSignals, otherFrame>>

\* shouldContinue returned false to the second call: its finally block.
OtherExit ==
  /\ other.pc = "check"
  /\ ~shouldContinue
  /\ isRunning' = FALSE
  /\ other' = [other EXCEPT !.pc = "done"]
  /\ UNCHANGED <<config, iterations, elapsed, totalCost,
                 consecutiveCompletionSignals, otherFrame>>

\* The result executeIteration resolves to for an outcome.
OutcomeResult(res, outcome) ==
  [res EXCEPT !.success = outcome # "failed",
              !.summary = IF outcome = "failed" THEN "" ELSE outcome,
              !.cost = IterationCost]

\* executeIteration of the second call resolves while the first is suspended
\* or over: the notes entry of a successful iteration, then the body of the
\* while loop after the await, as in HandleResult.
OtherReturn(outcome) ==
  /\ other.pc = "iteration"
  /\ Suspended \/ pc = "done"
  /\ LET res == OutcomeResult(other.result, outcome) IN
       /\ ledger' = IF res.success /\ Len(ledger) < IterBound * RunBound
                       THEN Append(ledger, [iteration |-> iterations,
                                            status |-> FALSE])
                       ELSE ledger
       /\ totalCost' = CostAfter(res, totalCost)
       /\ consecutiveCompletionSignals' =
            SignalCountAfter(res, consecutiveCompletionSignals)
       /\ IF TaskComplete(res, consecutiveCompletionSignals')
            THEN /\ isRunning' = FALSE
                 /\ other' = [pc |-> "done", result |-> res]
            ELSE /\ other' = [pc |-> "check", result |-> res]
                 /\ UNCHANGED isRunning
  /\ UNCHANGED <<pc, config, iterations, elapsed, result, head, pr, pollVars,
                 closeReason, queryFailed, promptVars, ghostVars, sessionVars,
                 treeVars>>

\* The second call runs from one await to the next without the first call
\* in between.
NextOverlap ==
  \/ \E userConfig \in OverlapConfigs : Run(userConfig)
  \/ \E userConfig \in OverlapConfigs : RunWhileSuspended(userConfig)
  \/ OtherEnter
  \/ OtherExit
  \/ \E outcome \in Outcomes : OtherReturn(outcome)
  \/ other.pc # "check" /\ Step
  \/ other.pc # "check" /\ Tick

OverlapSpec == Init /\ [][NextOverlap]_vars

\* A workspace that nothing but the loop writes to: the generation step
\* never changes a file. Runs of two iterations.
QuietConfigs == { c \in UserConfigs : c.maxIterations = 2 }

NextQuiet ==
  \/ \E userConfig \in QuietConfigs : Run(userConfig)
  \/ Pipeline
  \/ ChangedFilesOf({0})
  \/ Tick

QuietSpec == Init /\ [][NextQuiet]_vars

\* The runs capped at one iteration, under the same scheduling: one pass of
\* executeIteration, and of waitForChecks, from beginning to end.
OneIterationConfigs == { c \in UserConfigs : c.maxIterations = 1 }

NextOneIteration ==
  \/ \E userConfig \in OneIterationConfigs : Run(userConfig)
  \/ Step
  \/ Tick

OneIterationFairSpec ==
  /\ Init
  /\ [][NextOneIteration]_vars
  /\ WF_vars(Step)
  /\ SF_vars(Tick)

(***************************************************************************)
(* FileService: one file of the context directory, its content a sequence  *)
(* of tokens.                                                              *)
(***************************************************************************)
\* The contents handed to writeFile and appendFile.
Contents == UNION { [1..n -> {"NL", "TXT"}] : n \in 0..PieceLenBound }

fileExists(f) == f.exists

\* '' for a file that does not exist
readFile(f) == IF ~f.exists THEN <<>> ELSE f.content

\* ensureDir, then writeFileSync: the file exists and holds the content
writeFile(f, content) == [exists |-> TRUE, content |-> content]

ContentAlone(existing, content) == content

\* existing + '\n' + content
AppendedContent(existing, content) == existing \o <<"NL">> \o content

appendFile(f, content) ==
  LET existing == IF fileExists(f) THEN readFile(f) ELSE <<>> IN
  writeFile(f, AppendedContent(existing, content))

AppendFile ==
  /\ Len(pieces) < AppendBound
  /\ \E content \in Contents :
       /\ file' = appendFile(file, content)
       /\ pieces' = Append(pieces, content)
  /\ UNCHANGED <<loopVars, other, progress, currentSession, returned, merges,
                 managerVars, initial>>

WriteFile ==
  /\ \E content \in Contents : file' = writeFile(file, content)
  /\ initial' = file'
  /\ pieces' = <<>>
  /\ UNCHANGED <<loopVars, other, progress, currentSession, returned, merges,
                 managerVars>>

NextFile == AppendFile \/ WriteFile

FileSpec == Init /\ [][NextFile]_vars

(***************************************************************************)
(* ContextManager.mergeSessions. progress.md is kept as a sequence of      *)
(* tokens: "NL" a newline, "SP" any other white space, "HDR" the text      *)
(* "## Session:", "TXT" any other run of characters, "MERGED" the title of *)
(* a merged entry ("Merged: " and the date).                               *)
(***************************************************************************)
Tokens == {"NL", "SP", "HDR", "TXT"}

\* The files tried.
Files == UNION { [1..n -> Tokens] : n \in 0..FileLenBound }

\* \s of the regular expressions, and the characters trim removes.
IsSpace(t) == t \in {"NL", "SP"}

RECURSIVE TrimStart(_)
TrimStart(str) ==
  IF str = <<>> \/ ~IsSpace(Head(str)) THEN str ELSE TrimStart(Tail(str))

RECURSIVE TrimEnd(_)
TrimEnd(str) ==
  IF str = <<>> \/ ~IsSpace(str[Len(str)]) THEN str
  ELSE TrimEnd(SubSeq(str, 1, Len(str) - 1))

\* String.prototype.trim
Trim(str) == TrimEnd(TrimStart(str))

\* /\n## Session:\s*/ matches at index i; where its match ends.
SeparatorAt(str, i) ==
  i + 1 <= Len(str) /\ str[i] = "NL" /\ str[i + 1] = "HDR"

RECURSIVE SkipSpace(_, _)
SkipSpace(str, i) ==
  IF i <= Len(str) /\ IsSpace(str[i]) THEN SkipSpace(str, i + 1) ELSE i

\* history.split(/\n## Session:\s*/), from index i on with the piece cur
\* collected so far.
RECURSIVE SplitFrom(_, _, _)
SplitFrom(str, i, cur) ==
  IF i > Len(str) THEN <<cur>>
  ELSE IF SeparatorAt(str, i)
    THEN <<cur>> \o SplitFrom(str, SkipSpace(str, i + 2), <<>>)
  ELSE SplitFrom(str, i + 1, Append(cur, str[i]))

\* history.split(/\n## Session:\s*/)
Split(history) == SplitFrom(history, 1, <<>>)

\* .filter(p => p.trim().length > 0)
Parts(history) == SelectSeq(Split(history), LAMBDA p : Len(Trim(p)) > 0)

\* content: '## Session: ' + p
EntryContent(p) == <<"HDR", "SP">> \o p

\* t.content.replace(/^## Session:\s*/i, '').trim()
StripHeader(content) ==
  Trim(IF content # <<>> /\ Head(content) = "HDR"
         THEN TrimStart(Tail(content)) ELSE content)

\* .join('\n\n')
RECURSIVE Join(_)
Join(strs) ==
  IF strs = <<>> THEN <<>>
  ELSE IF Len(strs) = 1 THEN strs[1]
  ELSE strs[1] \o <<"NL", "NL">> \o Join(Tail(strs))

MergedTitle == "MERGED"

\* The names the startSession command is given.
Names == {"A", "B"}

RECURSIVE FirstLine(_)
\* p.split('\n')[0]
FirstLine(p) ==
  IF p = <<>> \/ Head(p) = "NL" THEN <<>> ELSE <<Head(p)>> \o FirstLine(Tail(p))

\* A line as a string: a line of one token is that token, a longer line is
\* some other text.
Text(line) == IF Len(line) = 1 THEN line[1] ELSE "TXT"

\* p.split('\n')[0].trim() || 'Unnamed session'
Title(p) ==
  LET firstLine == Trim(FirstLine(p)) IN
  IF firstLine = <<>> THEN "Unnamed session" ELSE Text(firstLine)

\* parts.map(p => ({ title, content: '## Session: ' + p }))
Entries(history) ==
  LET parts == Parts(history) IN
  [i \in DOMAIN parts |->
     [title |-> Title(parts[i]), content |-> EntryContent(parts[i])]]

Range(seq) == {seq[i] : i \in DOMAIN seq}

\* names && names.length > 0 ? entries.filter(e => names.includes(e.title))
\*                           : entries
ToMerge(history, names) ==
  IF names # <<>>
    THEN SelectSeq(Entries(history), LAMBDA e : e.title \in Range(names))
    ELSE Entries(history)

MergedContentOf(toMerge) ==
  Join([i \in DOMAIN toMerge |-> StripHeader(toMerge[i].content)])

\* `\n## Session: ${mergedTitle}\n${mergedContent}\n`
MergedEntryOf(toMerge) ==
  <<"NL", "HDR", "SP", MergedTitle, "NL">> \o MergedContentOf(toMerge)
    \o <<"NL">>

\* The header content kept, the merged entry, a newline.
NewContentOf(history, toMerge) ==
  LET headerMatch == Split(history)[1] IN
  (IF Len(Trim(headerMatch)) > 0 THEN headerMatch \o <<"NL">> ELSE <<>>)
    \o MergedEntryOf(toMerge) \o <<"NL">>

\* mergeSessions() without names.
MergedContent(history) == MergedContentOf(ToMerge(history, <<>>))
MergedEntry(history) == MergedEntryOf(ToMerge(history, <<>>))
NewContent(history) == NewContentOf(history, ToMerge(history, <<>>))

\* The matches of /## Session:/g in a file.
HeaderCount(str) == Cardinality({i \in DOMAIN str : str[i] = "HDR"})

\* The session entries of a file: the pieces that follow a header line and
\* are not blank.
SessionEntries(str) ==
  Len(SelectSeq(Tail(Split(str)), LAMBDA p : Len(Trim(p)) > 0))

getCurrentSessionName ==
  IF currentSession.name # "" THEN currentSession.name ELSE "No active session"

isSessionActive == currentSession # NoSession

\* getSessionNames(): the titles of the parts of progress.md, in file order
getSessionNames(history) ==
  IF history = <<>> THEN <<>>
  ELSE LET parts == Parts(history) IN [i \in DOMAIN parts |-> Title(parts[i])]

\* mergeSessions(names): what the call does to the manager and to
\* progress.md. The write of the file may fail, and then the call throws.
mergeSessions(names) ==
  LET toMerge == ToMerge(progress, names) IN
  /\ merges' = merges + 1
  /\ lastCall' = "mergeSessions"
  /\ IF progress = <<>> \/ toMerge = <<>>
       THEN /\ returned' = ""
            /\ UNCHANGED <<progress, currentSession, autosaveTimer>>
       ELSE \E ok \in BOOLEAN :
              IF ok
                THEN /\ progress' = NewContentOf(progress, toMerge)
                     /\ currentSession' = [name |-> MergedTitle]
                     /\ returned' = MergedTitle
                     /\ autosaveTimer' = TRUE
                ELSE /\ returned' = "(thrown)"
                     /\ UNCHANGED <<progress, currentSession, autosaveTimer>>

\* mergeSessions() without names: every entry is merged.
MergeSessions ==
  /\ merges < MergeBound
  /\ mergeSessions(<<>>)
  /\ UNCHANGED <<loopVars, other, fileVars, enableAutosave, activated, prompts,
                 appended>>

\* A ContextManager after construction, over any progress.md.
MergeInit ==
  /\ LoopInit
  /\ SessionInit
  /\ progress \in Files

MergeSpec == MergeInit /\ [][MergeSessions]_vars

(***************************************************************************)
(* The extension: activate and deactivate, the commands and the prompts,   *)
(* over the ContextManager. Session names are the tokens "A" and "B"; "NOTE"*)
(* is the line "### Note for session ..." of a note.                       *)
(***************************************************************************)
\* sessionEntry of saveSessionHistory: the header line with the name, then
\* the lines of the id, the date and the notes.
SessionEntry(name) == <<"NL", "HDR", "SP", name, "NL", "TXT", "NL">>

\* historyNote of addNote
HistoryNote == <<"NL", "NOTE", "NL", "TXT", "NL">>

extFrame == <<loopVars, other, fileVars>>

\* loadConfiguration: the setting is read, the interval started or stopped
loadConfiguration(setting) ==
  /\ enableAutosave' = setting
  /\ autosaveTimer' = IF setting THEN TRUE ELSE FALSE
  /\ lastCall' = "loadConfiguration"

\* resumeSession(name)
resumeSession(name) ==
  /\ currentSession' = [name |-> name]
  /\ autosaveTimer' = TRUE
  /\ lastCall' = "resumeSession"

\* The check made before a prompt is shown; the prompt keeps the names.
OpenPrompt(source) ==
  LET sessions == getSessionNames(progress) IN
  /\ lastCall' = "getSessionNames"
  /\ IF Len(sessions) > 0 /\ ~isSessionActive
       THEN prompts' = prompts \cup {[source |-> source, sessions |-> sessions]}
       ELSE UNCHANGED prompts

\* activate: a new ContextManager, whose constructor loads the
\* configuration, then the prompt for previous sessions.
Activate ==
  /\ ~activated
  /\ activated' = TRUE
  /\ \E setting \in BOOLEAN :
       /\ enableAutosave' = setting
       /\ autosaveTimer' = IF setting THEN TRUE ELSE FALSE
  /\ OpenPrompt("activate")
  /\ UNCHANGED <<extFrame, progress, currentSession, returned, merges, appended>>

\* deactivate: dispose stops the interval; the manager and what waits for
\* an answer go with the window.
Deactivate ==
  /\ activated
  /\ activated' = FALSE
  /\ autosaveTimer' = FALSE
  /\ currentSession' = NoSession
  /\ prompts' = {}
  /\ lastCall' = "dispose"
  /\ UNCHANGED <<extFrame, progress, returned, merges, enableAutosave, appended>>

\* The configuration changed.
LoadConfiguration ==
  /\ activated
  /\ \E setting \in BOOLEAN : loadConfiguration(setting)
  /\ UNCHANGED <<extFrame, progress, currentSession, returned, merges, activated,
                 prompts, appended>>

\* The command persistent-context.startSession, a name entered.
StartSession ==
  /\ activated
  /\ \E name \in Names : currentSession' = [name |-> name]
  /\ autosaveTimer' = TRUE
  /\ lastCall' = "startSession"
  /\ UNCHANGED <<extFrame, progress, returned, merges, enableAutosave, activated,
                 prompts, appended>>

\* The command persistent-context.endSession. The write of the entry may
\* fail, and then the session stays as it is.
EndSession ==
  /\ activated
  /\ isSessionActive => appended < HistoryBound
  /\ lastCall' = "endSession"
  /\ \E ok \in BOOLEAN :
       IF isSessionActive /\ ok
         THEN /\ progress' =
                   AppendedContent(progress, SessionEntry(currentSession.name))
              /\ appended' = appended + 1
              /\ currentSession' = NoSession
              /\ autosaveTimer' = FALSE
         ELSE UNCHANGED <<progress, appended, currentSession, autosaveTimer>>
  /\ UNCHANGED <<extFrame, returned, merges, enableAutosave, activated, prompts>>

\* The command persistent-context.addNote, a note entered.
AddNote ==
  /\ activated
  /\ isSessionActive => appended < HistoryBound
  /\ lastCall' = "addNote"
  /\ \E ok \in BOOLEAN :
       IF isSessionActive /\ ok
         THEN /\ progress' = AppendedContent(progress, HistoryNote)
              /\ appended' = appended + 1
         ELSE UNCHANGED <<progress, appended>>
  /\ UNCHANGED <<extFrame, currentSession, autosaveTimer, returned, merges,
                 enableAutosave, activated, prompts>>

\* onDidChangeWorkspaceFolders, folders added.
FolderPrompt ==
  /\ activated
  /\ Cardinality(prompts) < PromptBound
  /\ OpenPrompt("folders")
  /\ UNCHANGED <<extFrame, progress, currentSession, returned, merges,
                 enableAutosave, autosaveTimer, activated, appended>>

\* promptForSessions, on a change of the watched progress.md.
WatcherPrompt ==
  /\ activated
  /\ Cardinality(prompts) < PromptBound
  /\ OpenPrompt("watcher")
  /\ UNCHANGED <<extFrame, progress, currentSession, returned, merges,
                 enableAutosave, autosaveTimer, activated, appended>>

\* What a prompt offers.
Choices(p) ==
  IF Len(p.sessions) = 1 THEN {"Resume", "No"}
  ELSE Range(p.sessions) \cup {"Merge all sessions", "(dismissed)"}

\* The callback of a prompt, run when the prompt is answered.
AnswerPrompt ==
  /\ activated
  /\ \E p \in prompts :
       /\ prompts' = prompts \ {p}
       /\ \E choice \in Choices(p) :
            IF choice = "Resume"
              THEN /\ resumeSession(p.sessions[1])
                   /\ UNCHANGED <<progress, returned, merges>>
            ELSE IF choice = "Merge all sessions"
              THEN /\ merges < MergeBound
                   /\ mergeSessions(p.sessions)
            ELSE IF choice \in Range(p.sessions) /\ Len(p.sessions) > 1
              THEN /\ resumeSession(choice)
                   /\ UNCHANGED <<progress, returned, merges>>
            ELSE /\ lastCall' = "none"
                 /\ UNCHANGED <<progress, returned, merges, currentSession,
                                autosaveTimer>>
  /\ UNCHANGED <<extFrame, enableAutosave, activated, appended>>

NextExtension ==
  \/ Activate
  \/ Deactivate
  \/ LoadConfiguration
  \/ StartSession
  \/ EndSession
  \/ AddNote
  \/ FolderPrompt
  \/ WatcherPrompt
  \/ AnswerPrompt

ExtensionSpec == Init /\ [][NextExtension]_vars

(***************************************************************************)
(* The properties.                                                         *)
(***************************************************************************)
InPipeline ==
  pc \in {"createBranch", "collect", "summarize", "changedFiles", "commit",
          "push", "createPR", "poll", "sleep", "merge", "checkout", "pull",
          "close", "saveNotes", "returned"}

AllCapsZero ==
  config.maxIterations = 0 /\ config.maxDuration = 0 /\ config.maxCost = 0

\* C1: a run whose three caps are all zero is rejected with an error before
\* any iteration: nothing of executeIteration has happened (no branch, no
\* result, no review, no ledger entry) and the counter is still 0.
C1_RejectedBeforeAnyIteration ==
  (pc # "idle" /\ AllCapsZero) =>
    /\ pc = "rejected"
    /\ thrown # ""
    /\ iterations = 0
    /\ ~isRunning
    /\ head = "main"
    /\ result = NewResult(0)
    /\ pr = NoPR
    /\ ledger = <<>>

C1_Witness == pc = "rejected" /\ AllCapsZero /\ thrown # ""

\* C2: every run that passes validation eventually terminates and prints its
\* summary, whatever caps are set and however many iterations fail.
C2_RunTerminates == (pc = "check") ~> (pc = "done" /\ summaryPrinted)

\* (C2, for comparison: with an iteration cap or a duration cap the run does
\* terminate; only the cost cap alone can be starved by failing iterations.)
RunTerminatesWithIterationOrDurationCap ==
  (pc = "check" /\ (config.maxIterations > 0 \/ config.maxDuration > 0))
    ~> (pc = "done" /\ summaryPrinted)

\* C3: after any iteration whose summary does not contain the completion
\* signal, successful or failed, consecutiveCompletionSignals is 0 before the
\* next iteration starts; so the run ends as "task complete" only when the
\* last completionThreshold iterations in a row succeeded with the signal.
C3_CounterResetWithoutSignal ==
  [][ /\ (pc = "returned" /\ ~IncludesSignal(result.summary))
          => consecutiveCompletionSignals' = 0
      /\ (exitBy' = "complete") => streak' >= config.completionThreshold ]_vars

\* C4: a successful iteration whose summary contains the signal adds 1 to the
\* counter; when the counter reaches completionThreshold the run ends there
\* and no iteration follows; with maxIterations = 3 as the only cap,
\* completionThreshold = 2 and only successful signalling iterations, exactly
\* 2 iterations run.
C4_SignalCountedAndRunEnds ==
  [][ /\ (pc = "returned" /\ result.success /\ IncludesSignal(result.summary))
          => /\ consecutiveCompletionSignals' = consecutiveCompletionSignals + 1
             /\ (consecutiveCompletionSignals' >= config.completionThreshold)
                  => (pc' = "done" /\ exitBy' = "complete" /\ ~isRunning')
             /\ (consecutiveCompletionSignals' < config.completionThreshold)
                  => pc' = "check"
      /\ (pc = "done") => (pc' = "done" /\ iterations' = iterations)
      /\ ( /\ pc' = "done"
           /\ config.maxIterations = 3 /\ config.completionThreshold = 2
           /\ config.maxDuration = 0 /\ config.maxCost = 0
           /\ streak' = iterations' )
          => iterations' = 2 ]_vars

C4_Witness ==
  /\ pc = "done" /\ exitBy = "complete"
  /\ config.maxIterations = 3 /\ config.completionThreshold = 2
  /\ config.maxDuration = 0 /\ config.maxCost = 0
  /\ streak = 2 /\ iterations = 2

\* C5: every pass of the loop adds exactly 1 to the iteration counter and the
\* pass's result carries the counter as its number; with a nonzero
\* maxIterations the counter never exceeds it.
C5_CounterStepsByOneWithinCap ==
  [][ /\ (iterations' # iterations)
          => (pc = "check" /\ pc' = "createBranch" /\ iterations' = iterations + 1)
      /\ (pc = "check" /\ pc' = "createBranch")
          => (iterations' = iterations + 1 /\ result'.iterationNumber = iterations')
      /\ InPipeline' => result'.iterationNumber = iterations'
      /\ (config'.maxIterations > 0) => iterations' <= config'.maxIterations ]_vars

C5_Witness ==
  /\ pc = "returned" /\ iterations = 3 /\ result.iterationNumber = 3
  /\ config.maxIterations = 3

\* The caps, as the configuration states them.
IterationCapReached ==
  config.maxIterations # 0 /\ iterations >= config.maxIterations
DurationCapReached ==
  config.maxDuration # 0 /\ elapsed >= config.maxDuration
CostCapReached ==
  config.maxCost # 0 /\ totalCost >= config.maxCost
SomeCapReached == IterationCapReached \/ DurationCapReached \/ CostCapReached

\* C6: no iteration starts with a nonzero cap reached; each cap alone ends the
\* run at the next check; a cap of 0 never ends it (the loop is left at a
\* check only with a nonzero cap reached).
C6_NoIterationPastACap ==
  [][ /\ (pc = "check" /\ pc' = "createBranch") => ~SomeCapReached
      /\ (pc = "check" /\ SomeCapReached) => pc' = "done"
      /\ (pc = "check" /\ pc' = "done") => SomeCapReached ]_vars

C6_Witness ==
  /\ pc = "done" /\ exitBy = "maxDuration"
  /\ DurationCapReached /\ ~IterationCapReached /\ ~CostCapReached
  /\ config.maxIterations > 0 /\ config.maxCost > 0

\* C7: a failed iteration does not end the run: the controller goes to the
\* next termination check with its counters as they were, and from a check
\* with no cap reached the next iteration starts.
C7_FailureDoesNotEndRun ==
  [][ /\ (pc = "returned" /\ ~result.success)
          => /\ pc' = "check"
             /\ isRunning'
             /\ UNCHANGED <<iterations, totalCost, config>>
      /\ (pc = "check" /\ ~SomeCapReached)
          => (pc' = "createBranch" /\ iterations' = iterations + 1) ]_vars

C7_Witness ==
  pc = "createBranch" /\ iterations = 2 /\ ledger = <<>> /\ totalCost = 0

\* The steps of executeIteration whose failure is an exception, and where each
\* goes when it does not fail.
AfterStep ==
  [createBranch |-> "collect", collect |-> "summarize", commit |-> "push",
   push |-> "createPR", createPR |-> "poll", merge |-> "checkout",
   checkout |-> "pull", pull |-> "saveNotes"]

\* This step is one of those, failing.
StepThrows ==
  \/ pc \in DOMAIN AfterStep /\ pc' # pc /\ pc' # AfterStep[pc]
  \/ pc = "saveNotes" /\ ledger' = ledger
  \/ pc = "close" /\ pr'.state # "closed"

FlagFor == [squash |-> "--squash", merge |-> "--merge", rebase |-> "--rebase"]

\* C9: mergePR is called for a review only after waitForChecks returned true
\* for that review in the same iteration, with the configured strategy; a
\* review whose checks failed or timed out is never merged.
C9_MergeOnlyAfterChecksPassed ==
  /\ (pc = "merge" \/ pr.state = "merged")
       => (checksPass = "true" /\ pr.passed /\ pr.number = iterations
           /\ result.prNumber = pr.number)
  /\ pr.state = "merged" => pr.flag = FlagFor[config.mergeStrategy]
  /\ checksPass = "false" => (pr.state # "merged" /\ pc # "merge")

C9_Witness ==
  pr.state = "merged" /\ config.mergeStrategy = "rebase" /\ pr.flag = "--rebase"

\* C10: when waitForChecks returned false the iteration closes the review
\* with reason "Checks failed", returns success = false with the error
\* "PR checks failed" and appends no ledger entry.
C10_ChecksFailedResult ==
  (pc = "returned" /\ checksPass = "false") =>
    /\ closeReason = "Checks failed"
    /\ pr.state = "closed"
    /\ ~result.success
    /\ result.error = "PR checks failed"
    /\ \A i \in DOMAIN ledger : ledger[i].iteration # iterations

\* C11: waitForChecks returns false at the first poll whose status reports
\* failed > 0: that poll does not sleep and no more of the timeout is waited.
C11_FailedCheckReturnsFalseAtOnce ==
  [][ (pc = "poll" /\ lastStatus'.failed > 0)
        => /\ checksPass' = "false"
           /\ pc' = "close"
           /\ pollElapsed' = pollElapsed
           /\ elapsed' = elapsed ]_vars

C11_Witness ==
  /\ pc = "close" /\ checksPass = "false"
  /\ lastStatus.failed > 0 /\ lastStatus.pending > 0
  /\ pollElapsed = 0

\* C12: waitForChecks returns true only from a poll whose status has
\* pending = 0, success >= 1 and failed = 0; a review that reports no checks
\* at all does not pass.
C12_TrueOnlyWhenAllChecksSucceeded ==
  [][ /\ (checksPass' = "true" /\ checksPass # "true")
          => /\ pc = "poll"
             /\ lastStatus'.pending = 0
             /\ lastStatus'.success >= 1
             /\ lastStatus'.failed = 0
      /\ (pc = "poll" /\ lastStatus' = CheckStates(<<>>))
          => (checksPass' = "none" /\ pc' = "sleep") ]_vars

C12_Witness ==
  /\ pc = "merge" /\ checksPass = "true"
  /\ lastStatus = [pending |-> 0, success |-> ChecksBound, failed |-> 0]

\* C13: waitForChecks always terminates: it fetches the status only while its
\* elapsed time is below the timeout, waits one interval after a poll that
\* decided nothing, returns false once the elapsed time has reached the
\* timeout, and a status fetch that throws only leads to the wait and the
\* next attempt.
C13_PollTerminates ==
  /\ [][ /\ (pc = "poll" /\ lastStatus' # lastStatus)
             => pollElapsed < PollTimeoutTicks
         /\ (pc = "poll" /\ pc' # "poll" /\ pollElapsed >= PollTimeoutTicks)
             => (checksPass' = "false" /\ pc' = "close")
         /\ (pc = "poll" /\ lastStatus' = FetchError)
             => (pc' = "sleep" /\ checksPass' = "none")
         /\ (pc = "sleep")
             => (pc' = "poll"
                 /\ pollElapsed' = Min(pollElapsed + 1, PollTimeoutTicks)) ]_vars
  /\ (pc \in {"poll", "sleep"}) ~> (checksPass # "none")

C13_Witness ==
  /\ pc = "close" /\ checksPass = "false"
  /\ pollElapsed = PollTimeoutTicks /\ lastStatus = NoStatus
  /\ pendingPolls = -1

\* The case of scenario C: the timeout is three poll intervals, two polls
\* reported pending checks and nothing failed, and the third reported a
\* failed check.
ScenarioC ==
  /\ PollTimeoutTicks = 3
  /\ pendingPolls = 2
  /\ lastStatus.failed > 0
  /\ checksPass = "false"

C15_NoChangeIterationRecordedSuccessful ==
  (pc = "returned" /\ result.summary # "" /\ result.changedFiles = 0
   /\ result.error = "") =>
    /\ pr = NoPR /\ result.prNumber = 0
    /\ result.success
    /\ \E i \in DOMAIN ledger :
         ledger[i] = [iteration |-> iterations, status |-> TRUE]

\* C16: whenever createBranch runs, in every iteration of a run, the working
\* checkout is on trunk, also after an iteration that failed its checks,
\* failed at a step, or made no changes.
C16_BranchCreatedFromTrunk == (pc = "createBranch") => (head = "main")

\* C17: when branch creation fails the iteration returns success = false
\* with the error, and no later step runs: no snapshot (which only follows a
\* branch that was created), no generation, no cost, no changed-file query,
\* no review, no ledger entry.
C17_BranchFailureAbortsIteration ==
  [][ /\ (pc = "createBranch" /\ result'.error # "")
          => /\ pc' = "returned"
             /\ result' = [NewResult(iterations) EXCEPT !.error = result'.error]
             /\ UNCHANGED <<head, pr, ledger, queryFailed, totalCost>>
      /\ (pc = "createBranch" /\ pc' = "collect") => result' = result
      /\ (pc' = "collect" /\ pc # "collect") => pc = "createBranch"
      /\ (pc = "returned" /\ ~result.success)
          => (pc' = "check" /\ ledger' = ledger /\ head' = head) ]_vars

C17_Witness ==
  /\ pc = "returned" /\ iterations = 1
  /\ result = [NewResult(1) EXCEPT !.error = "Command failed: git checkout -b"]
  /\ head = "main" /\ ledger = <<>> /\ pr = NoPR

\* The order of the steps of an iteration that found changed files.
StepAfter ==
  [commit |-> "push", push |-> "createPR", createPR |-> "poll",
   merge |-> "checkout", checkout |-> "pull", pull |-> "saveNotes"]

\* C18: with a non-empty changed-file set the steps run in the order commit,
\* push, review submission, polling, merge, checkout of trunk, pull; when
\* commit, push or review submission fails no later step runs, the iteration
\* returns success = false, and the run goes on to the next check.
C18_StepsInOrderAndAbortOnFailure ==
  [][ /\ (pc \in DOMAIN StepAfter /\ pc' # pc)
          => pc' \in {StepAfter[pc], "returned"}
      /\ (pc' = "commit" /\ pc # "commit")
          => (pc = "changedFiles" /\ result'.changedFiles > 0)
      /\ (pc \in {"poll", "sleep"} /\ pc' \notin {"poll", "sleep"})
          => pc' \in {"merge", "close"}
      /\ (pc' = "merge" /\ pc # "merge") => pc = "poll"
      /\ (pc \in {"commit", "push", "createPR"} /\ result'.error # "")
          => /\ pc' = "returned"
             /\ ~result'.success
             /\ UNCHANGED <<pr, head, ledger, pollVars>>
      /\ (pc = "returned" /\ ~result.success)
          => (pc' = "check" /\ isRunning' /\ UNCHANGED <<head, ledger, iterations>>)
    ]_vars

C18_Witness ==
  /\ pc = "returned" /\ ~result.success
  /\ result.error = "Failed to create PR"
  /\ result.changedFiles > 0 /\ pr = NoPR /\ head = "iteration"

\* C19: a failure of any version-control operation of an iteration (branch
\* creation, changed-file query, commit, push, checkout of trunk, pull)
\* makes the iteration return success = false with the error; a failed
\* changed-file query is never taken for "no changes".
C19_EveryGitFailureFailsIteration ==
  [][ /\ (pc \in {"createBranch", "commit", "push", "checkout", "pull"}
           /\ pc' # pc /\ pc' # AfterStep[pc])
          => (pc' = "returned" /\ ~result'.success /\ result'.error # "")
      /\ (pc = "changedFiles" /\ queryFailed')
          => (pc' = "returned" /\ ~result'.success /\ result'.error # "")
    ]_vars

C21_GatewayReceivesAssembledPrompt ==
  gatewayInput.called =>
    /\ gatewayInput.prompt = enhancedPrompt
    /\ gatewayInput.prompt.task = "task"
    /\ gatewayInput.prompt.signalInstruction

\* C22: loadPreviousIterationNotes returns a suffix of the ledger of at most
\* the bound that ends with the entry saveIterationNotes appended last, and
\* the empty string when there is no ledger; so the prompt of an iteration
\* holds the end of the entry the iteration before it wrote.
C22_ReadTailEndsWithLastEntry ==
  (pc = "summarize") =>
    /\ Len(enhancedPrompt.notes) <= TailBound
    /\ ledger = <<>> => enhancedPrompt.notes = <<>>
    /\ ledger # <<>> =>
         /\ enhancedPrompt.notes # <<>>
         /\ enhancedPrompt.notes[Len(enhancedPrompt.notes)] = ledger[Len(ledger)]

C24_TotalCostGrowsOnlyOnSuccess ==
  [][ (runs' = runs) =>
        /\ totalCost' >= totalCost
        /\ (totalCost' # totalCost)
             => /\ pc = "returned" /\ result.success
                /\ result.cost = IterationCost
                /\ totalCost' = totalCost + IterationCost
        /\ (pc = "returned" /\ result.success)
             => totalCost' = totalCost + result.cost
        /\ (pc = "returned" /\ ~result.success) => totalCost' = totalCost ]_vars

C24_Witness ==
  /\ pc = "check" /\ iterations = 3 /\ totalCost = 2 * IterationCost
  /\ config.maxCost = 0

\* C25: every call of run that passes the validation starts with iterations,
\* totalCost and consecutiveCompletionSignals at 0 and with its clock at the
\* current time, whatever the call before it left in them.
C25_CountersResetAtRunStart ==
  [][ (runs' # runs /\ pc' # "rejected")
        => /\ pc' = "check" /\ isRunning'
           /\ iterations' = 0
           /\ totalCost' = 0
           /\ consecutiveCompletionSignals' = 0
           /\ elapsed' = 0 ]_vars

C25_Witness ==
  /\ runs = 2 /\ pc = "check"
  /\ iterations = 0 /\ totalCost = 0 /\ elapsed = 0
  /\ Len(ledger) = 1 /\ config.maxCost = CostBound

\* C26: whenever run has exited, by a cap, by the completion threshold or
\* by the rejection of the configuration, a final accounting with the
\* iteration count, the cost, the elapsed time and the termination reason
\* has been printed for that call.
C26_FinalAccountingOnEveryExit ==
  (pc \in {"done", "rejected"}) =>
    /\ summaryPrinted
    /\ {"iterations", "totalCost", "time", "reason"} \subseteq printSummary

\* C27: closing the review is best-effort: whether or not closePR fails
\* after the checks failed or timed out, the iteration returns success =
\* false with the error "PR checks failed".
C27_CloseIsBestEffort ==
  (pc = "returned" /\ closeReason # "") =>
    (~result.success /\ result.error = "PR checks failed")

\* C28: the configuration a call of run works with is the defaults
\* overridden by the userConfig of that call only, whatever was given to
\* earlier calls; and a call that is rejected leaves the configuration of
\* the instance as it was.
C28_ConfigurationPerRun ==
  [][ (runs' # runs)
        => IF pc' = "rejected" THEN config' = config
                               ELSE config' = intended' ]_vars

\* C29: the counters of a run are its own and iterations never overlap: a
\* call of run made while an earlier call is suspended inside an iteration
\* leaves iterations, totalCost, consecutiveCompletionSignals and the start
\* time of the earlier call as they are; at most one iteration is executing
\* at any time; and the end of one call does not stop the other.
C29_RunsIsolated ==
  [][ /\ (other.pc = "none" /\ other'.pc # "none")
          => UNCHANGED <<iterations, totalCost, consecutiveCompletionSignals,
                         elapsed>>
      /\ ~(InPipeline' /\ pc' # "returned" /\ other'.pc = "iteration")
      /\ (other.pc # "done" /\ other'.pc = "done" /\ pc # "done")
          => isRunning'
      /\ (pc # "done" /\ pc' = "done" /\ other.pc \in {"check", "iteration"})
          => isRunning' ]_vars

\* C30: for any progress.md that holds at least one session entry, after
\* mergeSessions() returned the file holds exactly one "## Session:" header,
\* a session is active, and getCurrentSessionName() is the name returned.
C30_MergeLeavesOneHeader ==
  [][ (merges' # merges /\ SessionEntries(progress) >= 1
         /\ returned' # "(thrown)")
        => /\ HeaderCount(progress') = 1
           /\ isSessionActive'
           /\ getCurrentSessionName' = returned' ]_vars

\* C35: an iteration whose review was merged returns success = true and has
\* its entry in the ledger, whatever the steps after the merge (checkout of
\* the trunk, pull, write of the notes) did.
C35_MergedIterationSucceeds ==
  (pc = "returned" /\ pr.state = "merged") =>
    /\ result.success
    /\ ledger # <<>>
    /\ ledger[Len(ledger)].iteration = iterations

\* C36: when executeIteration returns, the review it created, if any, is no
\* longer open: it was merged or closed, also when the merge or the close
\* failed.
C36_NoReviewLeftOpen ==
  (pc = "returned" /\ pr.state # "none") => pr.state \in {"merged", "closed"}

\* A raw check record that has concluded, and not in success.
ConcludedFailure(check) == check.conclusion \notin {"success", "none"}

\* C37: getPRStatus counts every check record that concluded without success
\* as failed and never as success, so waitForChecks does not return true
\* from a fetch that reported such a record: whatever list of records gave
\* the tallies of a poll, its concluded failures are among the failed ones,
\* and there is none when the poll returns true.
C37_ConcludedFailureCountsAsFailed ==
  [][ (pc = "poll" /\ pc' # "poll") =>
        \A checks \in CheckLists :
          (lastStatus' = CheckStates(checks)) =>
            /\ Cardinality({i \in DOMAIN checks : ConcludedFailure(checks[i])})
                 <= lastStatus'.failed
            /\ (checksPass' = "true") =>
                 (\A i \in DOMAIN checks : ~ConcludedFailure(checks[i])) ]_vars

\* C34: the changes of an iteration whose review was closed or whose
\* pipeline failed are never brought into the trunk by a later iteration:
\* what the merge of iteration k brings in are commits made in iteration k
\* only.
C34_MergeBringsOwnCommitsOnly ==
  [][ (pr.state # "merged" /\ pr'.state = "merged")
        => commits \subseteq {iterations} ]_vars

\* C38: when the generation step never changes the workspace, no iteration
\* of the run commits, pushes or submits a review: the notes file the loop
\* writes is never among the changed files a later iteration sees.
C38_BookkeepingNeverCommitted ==
  /\ pc \notin {"commit", "push", "createPR"}
  /\ pr = NoPR
  /\ (pc = "returned") => result.changedFiles = 0


\* The pieces handed to appendFile, each after a newline.
RECURSIVE AllPieces(_)
AllPieces(ps) ==
  IF ps = <<>> THEN <<>>
  ELSE AllPieces(SubSeq(ps, 1, Len(ps) - 1)) \o <<"NL">> \o ps[Len(ps)]

\* C32: appendFile(f, c) loses nothing: afterwards the file exists and
\* readFile(f) is the previous content, a newline, then c (a missing file
\* counts as empty), so after any sequence of appendFile calls the file holds
\* what it held before the first, then every piece, in call order.
C32_AppendFileKeepsEverything ==
  [][ (Len(pieces') = Len(pieces) + 1) =>
        /\ fileExists(file')
        /\ readFile(file') =
             readFile(file) \o <<"NL">> \o pieces'[Len(pieces')]
        /\ readFile(file') = readFile(initial') \o AllPieces(pieces') ]_vars

\* Two different pieces were appended to a file that did not exist.
C32_Witness ==
  /\ ~fileExists(initial)
  /\ fileExists(file)
  /\ Len(pieces) = 2
  /\ pieces[1] # pieces[2]
  /\ pieces[1] # <<>>


\* C33: while the setting enableAutosave is false the ContextManager has no
\* autosave interval running, whatever sessions were started, resumed,
\* merged, annotated or ended since the setting was read.
C33_NoTimerWhileAutosaveDisabled ==
  (activated /\ ~enableAutosave) => ~autosaveTimer

\* The lines of a file that start with "## Session:".
HeaderLines(str) ==
  {i \in DOMAIN str : str[i] = "HDR" /\ (i = 1 \/ str[i - 1] = "NL")}

\* The titles on those lines from index i on, in file order: oldest first,
\* as saveSessionHistory appends.
RECURSIVE TitlesFrom(_, _)
TitlesFrom(str, i) ==
  IF i > Len(str) THEN <<>>
  ELSE (IF i \in HeaderLines(str)
          THEN <<Title(SubSeq(str, i + 1, Len(str)))>> ELSE <<>>)
         \o TitlesFrom(str, i + 1)

Reverse(seq) == [i \in DOMAIN seq |-> seq[Len(seq) + 1 - i]]

\* C31: getSessionNames returns the title of every "## Session:" entry of
\* progress.md once and nothing else, the most recent entry first, and the
\* empty list for a missing or empty file.
C31_SessionNamesMostRecentFirst ==
  getSessionNames(progress) = Reverse(TitlesFrom(progress, 1))

\* The session entries of a file: the non-blank pieces after a header.
SessionParts(str) ==
  LET after == Tail(Split(str)) IN
  {Trim(after[i]) : i \in {j \in DOMAIN after : Len(Trim(after[j])) > 0}}

\* C39: when mergeSessions(names) has merged, every session entry of
\* progress.md whose title is not in names is still in the file.
C39_MergeKeepsUnmergedEntries ==
  [][ \A p \in prompts \ prompts' :
        (lastCall' = "mergeSessions" /\ returned' = MergedTitle
           /\ merges' = merges + 1)
          => \A entry \in SessionParts(progress) :
               Title(entry) \notin Range(p.sessions)
                 => entry \in SessionParts(progress') ]_vars

\* C40: the callback of a resume/merge prompt calls resumeSession or
\* mergeSessions only while no session is active.
C40_PromptNeverReplacesActiveSession ==
  [][ (prompts' # prompts /\ prompts' \subseteq prompts
         /\ lastCall' \in {"resumeSession", "mergeSessions"})
        => ~isSessionActive ]_vars

=============================================================================
